---- MODULE Spec2Model ----
(***************************************************************************)
(* A model of the Redis CardDAV backend of jsDAV                           *)
(* (lib/CardDAV/backends/redis.js).                                        *)
(*                                                                         *)
(* The Redis server is three maps from key strings to values, one per      *)
(* Redis type the backend uses (string, hash, sorted set).  Every backend  *)
(* operation is a chain of callbacks; one step of the model is one round   *)
(* trip: the server executes the pending command (a MULTI batch executes   *)
(* as one command) and the reply's callback runs up to the next command it *)
(* issues or to the caller's callback.                                     *)
(*                                                                         *)
(* JavaScript values that reach a caller are pairs <<tag, text>>:          *)
(* Str(s) a string, Undefined, EmptyArray.  Redis replies are Nil or       *)
(* Bulk(s); an array reply is a sequence of those.                         *)
(***************************************************************************)
EXTENDS Integers, Sequences, FiniteSets, TLC

\* ------------------------------------------------------------ bounds
NumProcs == 2
MaxCalls == 3
MaxSeqCalls == 3
MaxDirectoryCalls == 2
MaxCardCalls == 4
MaxId == 2
MaxTime == 1

\* ------------------------------------------------------------ inputs
Procs == 1..NumProcs
Principals == {"principals/alice", "principals/bob"}
Urls == {"home"}
CardUris == {"a.vcf", "b.vcf"}
CardUriOrder == <<"a.vcf", "b.vcf">>
CardDatas == {"BEGIN:VCARD"}
AbIds == 1..MaxId
Times == 1..MaxTime

addressBooksTableName == "addressbooks"
cardsTableName == "cards"

NS_CARDDAV == "urn:ietf:params:xml:ns:carddav"
PropDisplayName == "{DAV:}displayname"
PropDescription == "{" \o NS_CARDDAV \o "}addressbook-description"
PropOther == "{DAV:}getetag"
PropNames == {PropDisplayName, PropDescription, PropOther}

PropValue(name) ==
    IF name = PropDisplayName THEN "Home"
    ELSE IF name = PropDescription THEN "Friends" ELSE "v"

\* A properties / mutations object: a map from some property names to values.
PropertyNameSets ==
    { {}, {PropDisplayName}, {PropDisplayName, PropDescription},
      {PropDisplayName, PropOther} }
PropertyMaps == { [n \in S |-> PropValue(n)] : S \in PropertyNameSets }

\* ------------------------------------------------------------ values
Nil == <<"nil", "">>
Bulk(s) == <<"bulk", s>>
Str(s) == <<"string", s>>
Undefined == <<"undefined", "">>
EmptyArray == <<"array", "">>

EmptyMap == [x \in {} |-> ""]

\* Number -> decimal string, as String(n) / HSET of a number stores it.
Digits == <<"0", "1", "2", "3", "4", "5", "6", "7", "8", "9">>

RECURSIVE IntToStr(_)
IntToStr(n) ==
    IF n < 10 THEN Digits[n + 1]
    ELSE IntToStr(n \div 10) \o Digits[(n % 10) + 1]

MaxInt == 1 + MaxCalls + MaxSeqCalls + MaxDirectoryCalls + MaxId + MaxTime
NaN == -1

\* parseInt(s, 10) on the strings the store can hold: the number whose decimal
\* form is s, NaN when s is no number.
parseInt(s) ==
    IF \E n \in 0..MaxInt : IntToStr(n) = s
    THEN CHOOSE n \in 0..MaxInt : IntToStr(n) = s
    ELSE NaN

\* JSON.stringify of an array of numbers.
RECURSIVE JoinIds(_)
JoinIds(ids) ==
    IF Len(ids) = 0 THEN ""
    ELSE IF Len(ids) = 1 THEN IntToStr(ids[1])
    ELSE IntToStr(ids[1]) \o "," \o JoinIds(Tail(ids))

JSONStringify(ids) == "[" \o JoinIds(ids) \o "]"

\* The id arrays a principal's entry can hold within the bounds.
RECURSIVE SeqsUpTo(_, _)
SeqsUpTo(S, n) ==
    IF n = 0 THEN { <<>> }
    ELSE LET shorter == SeqsUpTo(S, n - 1)
         IN  shorter \cup { Append(s, x) : s \in shorter, x \in S }

IdArrays == SeqsUpTo(AbIds, MaxId)

\* JSON.parse: the array whose JSON text is s; Parses(s) is false where
\* JSON.parse throws a SyntaxError.
Parses(s) == \E a \in IdArrays : JSONStringify(a) = s
JSONParse(s) == CHOOSE a \in IdArrays : JSONStringify(a) = s

\* ------------------------------------------------------------ state
VARIABLES
    strings,    \* Redis string keys: key -> text          (addressbooks/ID)
    hashes,     \* Redis hash keys:   key -> field -> text
    zsets,      \* Redis sorted sets: key -> member -> score
    pc,         \* per call slot: where its callback chain stands
    call,       \* per call slot: the operation invoked and its arguments
    local,      \* per call slot: the closure variables of the running call
    cb,         \* per call slot: how the caller's callback was invoked
    ncalls      \* operations invoked so far

store == <<strings, hashes, zsets>>
vars == <<strings, hashes, zsets, pc, call, local, cb, ncalls>>

\* ------------------------------------------------------------ key names
IdKey == addressBooksTableName \o "/ID"
PrincipalKey == addressBooksTableName \o "/pricipalUri"
\* The key built without the id (as the card index key of createCard is).
AddressBookKey_NoId(id) == addressBooksTableName \o "/"

AddressBookKey(id) == addressBooksTableName \o "/" \o IntToStr(id)
AddressBookCardsKey(id) ==
    addressBooksTableName \o "/" \o IntToStr(id) \o "/" \o cardsTableName
SharedCardsKey == addressBooksTableName \o "/" \o cardsTableName
\* The card key built without the address book id.
CardKey_NoBook(id, cardUri) == cardsTableName \o "/" \o cardUri

CardKey(id, cardUri) ==
    cardsTableName \o "/" \o IntToStr(id) \o "/" \o cardUri

\* ------------------------------------------------------------ Redis commands
\* Reads return the reply; writes return the new value of the map they change.
Put(m, k, v) == [x \in DOMAIN m \cup {k} |-> IF x = k THEN v ELSE m[x]]
Drop(m, k) == [x \in DOMAIN m \ {k} |-> m[x]]
Merge(m, w) == [x \in DOMAIN m \cup DOMAIN w |-> IF x \in DOMAIN w THEN w[x] ELSE m[x]]

HashAt(h, key) == IF key \in DOMAIN h THEN h[key] ELSE EmptyMap
ZsetAt(z, key) == IF key \in DOMAIN z THEN z[key] ELSE EmptyMap

HGET(h, key, field) ==
    IF field \in DOMAIN HashAt(h, key) THEN Bulk(HashAt(h, key)[field]) ELSE Nil

HMGET(h, key, fields) ==
    [i \in 1..Len(fields) |-> HGET(h, key, fields[i])]

\* HSETNX where HSET is meant: a field that is already set keeps its value.
HSET_NX(h, key, field, value) ==
    IF field \in DOMAIN HashAt(h, key) THEN h
    ELSE Put(h, key, Put(HashAt(h, key), field, value))

HSET(h, key, field, value) == Put(h, key, Put(HashAt(h, key), field, value))

HMSET(h, key, fieldValues) == Put(h, key, Merge(HashAt(h, key), fieldValues))

DEL(m, key) == Drop(m, key)

ZADD(z, key, score, member) == Put(z, key, Put(ZsetAt(z, key), member, score))

ZREM(z, key, member) ==
    LET rest == Drop(ZsetAt(z, key), member)
    IN  IF DOMAIN rest = {} THEN Drop(z, key) ELSE Put(z, key, rest)

\* INCR: the key's number plus one (a missing key counts as 0).
CounterAt(s, key) == IF key \in DOMAIN s THEN parseInt(s[key]) ELSE 0
\* A counter read in place of the increment (GET where INCR is meant).
INCR_Stale(s, key) == CounterAt(s, key)

INCR(s, key) == CounterAt(s, key) + 1

\* ZRANGE key 0 -1: the members by ascending score, ties by member.
UriRank(u) == CHOOSE i \in 1..Len(CardUriOrder) : CardUriOrder[i] = u
Before(zs, a, b) ==
    \/ zs[a] < zs[b]
    \/ zs[a] = zs[b] /\ UriRank(a) < UriRank(b)

RECURSIVE SortMembers(_, _)
SortMembers(zs, S) ==
    IF S = {} THEN <<>>
    ELSE LET first == CHOOSE a \in S : \A b \in S \ {a} : Before(zs, a, b)
         IN  <<Bulk(first)>> \o SortMembers(zs, S \ {first})

ZRANGE(z, key) == SortMembers(ZsetAt(z, key), DOMAIN ZsetAt(z, key))

\* Db.fromMultiBulk on an array reply: every bulk becomes its text, a nil
\* becomes an empty array.
FromMultiBulkItem(r) == IF r = Nil THEN EmptyArray ELSE Str(r[2])
FromMultiBulk(res) == [i \in 1..Len(res) |-> FromMultiBulkItem(res[i])]

\* Util.md5 of a card body, by table.
Md5(cardData) == "md5(" \o cardData \o ")"

\* ------------------------------------------------------------ call slots
NoCall ==
    [op |-> "none", principalUri |-> "", url |-> "", properties |-> EmptyMap,
     mutations |-> EmptyMap, addressBookId |-> 0, cardUri |-> "", cardData |-> ""]

NoLocal ==
    [ids |-> <<>>, id |-> 0, ctag |-> 0, now |-> 0, values |-> EmptyMap,
     cardUris |-> <<>>, principalUri |-> ""]

\* n counts the invocations of the caller's callback; err is "" for null;
\* kind says what val holds.
NoCb == [n |-> 0, err |-> "", kind |-> "none", val |-> <<>>]

InFlight(p) == pc[p] \notin {"idle", "done", "thrown"}
Quiescent == \A q \in Procs : ~InFlight(q)

Init ==
    /\ strings = EmptyMap
    /\ hashes = EmptyMap
    /\ zsets = EmptyMap
    /\ pc = [p \in Procs |-> "idle"]
    /\ call = [p \in Procs |-> NoCall]
    /\ local = [p \in Procs |-> NoLocal]
    /\ cb = [p \in Procs |-> NoCb]
    /\ ncalls = 0

\* Taking a call: the outcomes of the calls that ended before it are dropped
\* (their slots are free again) and slot p holds call c at `at`.
Taken(p, c, l, at, k) ==
    /\ ~InFlight(p)
    /\ ncalls' = ncalls + 1
    /\ call' = [q \in Procs |->
                  IF q = p THEN c ELSE IF InFlight(q) THEN call[q] ELSE NoCall]
    /\ local' = [local EXCEPT ![p] = l]
    /\ cb' = [q \in Procs |->
                IF q = p THEN k ELSE IF InFlight(q) THEN cb[q] ELSE NoCb]
    /\ pc' = [q \in Procs |->
                IF q = p THEN at ELSE IF InFlight(q) THEN pc[q] ELSE "idle"]

\* The function body up to its first command.
Start(p, c, l, at) == Taken(p, c, l, at, NoCb)

\* The function body returns through the caller's callback at once.
StartAndFinish(p, c, err, kind, val) ==
    Taken(p, c, NoLocal, "done", [n |-> 1, err |-> err, kind |-> kind, val |-> val])

\* A reply callback issues the next command.
Goto(p, l, at) ==
    /\ pc' = [pc EXCEPT ![p] = at]
    /\ local' = [local EXCEPT ![p] = l]
    /\ UNCHANGED <<call, cb, ncalls>>

\* A reply callback invokes the caller's callback.
Finish(p, err, kind, val) ==
    /\ pc' = [pc EXCEPT ![p] = "done"]
    /\ local' = [local EXCEPT ![p] = NoLocal]
    /\ cb' = [cb EXCEPT ![p] =
                [n |-> cb[p].n + 1, err |-> err, kind |-> kind, val |-> val]]
    /\ UNCHANGED <<call, ncalls>>

\* A reply callback returns without invoking the caller's callback.
ReturnSilently(p) ==
    /\ pc' = [pc EXCEPT ![p] = "done"]
    /\ local' = [local EXCEPT ![p] = NoLocal]
    /\ UNCHANGED <<call, cb, ncalls>>

\* A reply callback throws (res.toString on a null reply): nothing catches it,
\* the chain ends and the caller's callback is never invoked.
Throw(p) ==
    /\ pc' = [pc EXCEPT ![p] = "thrown"]
    /\ local' = [local EXCEPT ![p] = NoLocal]
    /\ UNCHANGED <<call, cb, ncalls>>

\* A JavaScript array read: undefined past the end.
At(a, i) == IF i + 1 <= Len(a) THEN a[i + 1] ELSE Undefined

\* ids.concat(id), whose result is dropped: ids stays as it was.
Push_Concat(ids, id) == ids

\* ids.push(id)
Push(ids, id) == Append(ids, id)

\* idx = ids.indexOf(x); if (idx > -1) ids.splice(idx, 1)
RECURSIVE RemoveFirst(_, _)
RemoveFirst(ids, x) ==
    IF Len(ids) = 0 THEN <<>>
    ELSE IF Head(ids) = x THEN Tail(ids)
    ELSE <<Head(ids)>> \o RemoveFirst(Tail(ids), x)

\* ctag++ where ++ctag is meant: the value written is the one read.
Increment_Postfix(ctag) == ctag

\* ++ctag
Increment(ctag) == IF ctag = NaN THEN NaN ELSE ctag + 1
NumberToString(n) == IF n = NaN THEN "NaN" ELSE IntToStr(n)

\* ------------------------------------------------------------ getAddressBooksForUser
GetAddressBooksForUser(p, principalUri) ==
    /\ Start(p, [NoCall EXCEPT !.op = "getAddressBooksForUser",
                               !.principalUri = principalUri],
             NoLocal, "gab_hget")
    /\ UNCHANGED store

\* One address book object from the reply of its HMGET.
AddressBookObject(id, data) ==
    [id |-> id,
     uri |-> At(data, 0),
     principaluri |-> At(data, 1),
     displayname |-> At(data, 2),
     getctag |-> At(data, 4),
     addressbookDescription |-> At(data, 3)]

AddressBookFields == <<"uri", "principaluri", "description", "ctag">>

GetAddressBooksForUser_hget(p) ==
    /\ pc[p] = "gab_hget"
    /\ LET res == HGET(hashes, PrincipalKey, call[p].principalUri)
       IN  IF res = Nil
           THEN Finish(p, "TypeError", "none", <<>>)
           ELSE IF ~Parses(res[2])
           THEN Finish(p, "SyntaxError", "none", <<>>)
           ELSE Goto(p, [local[p] EXCEPT !.ids = JSONParse(res[2])], "gab_exec")
    /\ UNCHANGED store

GetAddressBooksForUser_exec(p) ==
    /\ pc[p] = "gab_exec"
    /\ LET ids == local[p].ids
           res == [i \in 1..Len(ids) |->
                     HMGET(hashes, AddressBookKey(ids[i]), AddressBookFields)]
           addressBooks == [i \in 1..Len(ids) |->
                              AddressBookObject(ids[i], FromMultiBulk(res[i]))]
       IN  Finish(p, "", "addressBooks", addressBooks)
    /\ UNCHANGED store

\* ------------------------------------------------------------ updateAddressBook
\* The switch of the mutations loop: the field a recognized property updates.
UpdatesOf(mutations) ==
    [f \in { "displayname" : n \in DOMAIN mutations \cap {PropDisplayName} }
           \cup { "description" : n \in DOMAIN mutations \cap {PropDescription} }
       |-> IF f = "displayname" THEN mutations[PropDisplayName]
           ELSE mutations[PropDescription]]

\* A switch whose default branch only breaks.
UnsupportedMutation_Ignored(mutations) == FALSE

\* The default branch of the switch is taken for some property.
UnsupportedMutation(mutations) ==
    \E property \in DOMAIN mutations :
        property \notin {PropDisplayName, PropDescription}

UpdateAddressBook(p, addressBookId, mutations) ==
    /\ LET c == [NoCall EXCEPT !.op = "updateAddressBook",
                               !.addressBookId = addressBookId,
                               !.mutations = mutations]
       IN  IF UnsupportedMutation(mutations)
           THEN StartAndFinish(p, c, "", "bool", FALSE)
           ELSE IF DOMAIN UpdatesOf(mutations) = {}
           THEN StartAndFinish(p, c, "", "bool", FALSE)
           ELSE Start(p, c, [NoLocal EXCEPT !.values = UpdatesOf(mutations)],
                      "uab_hget")
    /\ UNCHANGED store

UpdateAddressBook_hget(p) ==
    /\ pc[p] = "uab_hget"
    /\ LET res == HGET(hashes, AddressBookKey(call[p].addressBookId), "ctag")
       IN  IF res = Nil
           THEN Throw(p)
           ELSE Goto(p, [local[p] EXCEPT !.ctag = Increment(parseInt(res[2]))],
                     "uab_hmset")
    /\ UNCHANGED store

UpdateAddressBook_hmset(p) ==
    /\ pc[p] = "uab_hmset"
    /\ hashes' = HMSET(hashes, AddressBookKey(call[p].addressBookId),
                       Merge([f \in {"ctag"} |-> NumberToString(local[p].ctag)],
                             local[p].values))
    /\ Finish(p, "", "bool", TRUE)
    /\ UNCHANGED <<strings, zsets>>

\* ------------------------------------------------------------ createAddressBook
\* A switch whose default branch only breaks.
UnknownProperty_Ignored(properties) == FALSE

\* The default branch of the switch is taken for some property.
UnknownProperty(properties) ==
    \E property \in DOMAIN properties :
        property \notin {PropDisplayName, PropDescription}

\* The values object after the loop; a null is sent to Redis as "null".
ValuesOf(principalUri, url, properties) ==
    [displayname |-> IF PropDisplayName \in DOMAIN properties
                     THEN properties[PropDisplayName] ELSE "null",
     description |-> IF PropDescription \in DOMAIN properties
                     THEN properties[PropDescription] ELSE "null",
     principaluri |-> principalUri,
     uri |-> url]

\* Ids handed out or about to be: the INCR of a running call is still to come.
IdsClaimed ==
    CounterAt(strings, IdKey)
        + Cardinality({q \in Procs : pc[q] \in {"cab_hget", "cab_incr"}})

CreateAddressBook(p, principalUri, url, properties) ==
    /\ LET c == [NoCall EXCEPT !.op = "createAddressBook",
                               !.principalUri = principalUri,
                               !.url = url,
                               !.properties = properties]
       IN  IF UnknownProperty(properties)
           THEN StartAndFinish(p, c, "BadRequest", "none", <<>>)
           ELSE /\ IdsClaimed < MaxId
                /\ Start(p, c,
                         [NoLocal EXCEPT
                            !.values = ValuesOf(principalUri, url, properties)],
                         "cab_hget")
    /\ UNCHANGED store

CreateAddressBook_hget(p) ==
    /\ pc[p] = "cab_hget"
    /\ LET res == HGET(hashes, PrincipalKey, call[p].principalUri)
           ids == IF res = Nil \/ ~Parses(res[2]) THEN <<>> ELSE JSONParse(res[2])
       IN  Goto(p, [local[p] EXCEPT !.ids = ids], "cab_incr")
    /\ UNCHANGED store

CreateAddressBook_incr(p) ==
    /\ pc[p] = "cab_incr"
    /\ LET id == INCR(strings, IdKey)
       IN  /\ strings' = Put(strings, IdKey, IntToStr(id))
           /\ Goto(p, [local[p] EXCEPT !.id = id, !.ids = Push(local[p].ids, id)],
                   "cab_exec")
    /\ UNCHANGED <<hashes, zsets>>

CreateAddressBook_exec(p) ==
    /\ pc[p] = "cab_exec"
    /\ LET h1 == HSET(hashes, PrincipalKey, call[p].principalUri,
                      JSONStringify(local[p].ids))
           h2 == HMSET(h1, AddressBookKey(local[p].id),
                       Merge([f \in {"ctag"} |-> NumberToString(1)],
                             local[p].values))
       IN  hashes' = h2
    /\ Finish(p, "", "replies", 2)
    /\ UNCHANGED <<strings, zsets>>

\* ------------------------------------------------------------ deleteAddressBook
DeleteAddressBook(p, addressBookId) ==
    /\ Start(p, [NoCall EXCEPT !.op = "deleteAddressBook",
                               !.addressBookId = addressBookId],
             NoLocal, "dab_hget_principal")
    /\ UNCHANGED store

RECURSIVE DelCards(_, _, _)
DelCards(h, addressBookId, cardUris) ==
    IF Len(cardUris) = 0 THEN h
    ELSE DelCards(DEL(h, CardKey(addressBookId, Head(cardUris)[2])),
                  addressBookId, Tail(cardUris))

\* The callbacks of deleteAddressBook, in the order the chain runs them.
DeleteAddressBook_step(p) ==
    /\ pc[p] \in {"dab_hget_principal", "dab_hget_ids", "dab_zrange", "dab_exec"}
    /\ LET addressBookId == call[p].addressBookId
       IN  CASE pc[p] = "dab_hget_principal" ->
                  /\ LET res == HGET(hashes, AddressBookKey(addressBookId),
                                     "pricipaluri")
                     IN  IF res = Nil
                         THEN Throw(p)
                         ELSE Goto(p, [local[p] EXCEPT !.principalUri = res[2]],
                                   "dab_hget_ids")
                  /\ UNCHANGED store
             [] pc[p] = "dab_hget_ids" ->
                  /\ LET res == HGET(hashes, PrincipalKey, local[p].principalUri)
                         ids == IF res = Nil \/ ~Parses(res[2])
                                THEN <<>> ELSE JSONParse(res[2])
                     IN  Goto(p, [local[p] EXCEPT
                                    !.ids = RemoveFirst(ids, addressBookId)],
                              "dab_zrange")
                  /\ UNCHANGED store
             [] pc[p] = "dab_zrange" ->
                  /\ LET res == ZRANGE(zsets, AddressBookCardsKey(addressBookId))
                     IN  Goto(p, [local[p] EXCEPT !.cardUris = FromMultiBulk(res)],
                              "dab_exec")
                  /\ UNCHANGED store
             [] pc[p] = "dab_exec" ->
                  /\ LET h1 == DEL(hashes, AddressBookKey(addressBookId))
                         h2 == HSET(h1, PrincipalKey, local[p].principalUri,
                                    JSONStringify(local[p].ids))
                     IN  hashes' = DelCards(h2, addressBookId, local[p].cardUris)
                  /\ zsets' = DEL(zsets, AddressBookCardsKey(addressBookId))
                  /\ Finish(p, "", "replies", 3 + Len(local[p].cardUris))
                  /\ UNCHANGED strings

\* ------------------------------------------------------------ getCards
GetCards(p, addressbookId) ==
    /\ Start(p, [NoCall EXCEPT !.op = "getCards", !.addressBookId = addressbookId],
             NoLocal, "gcs_zrange")
    /\ UNCHANGED store

CardFields == <<"carddata", "lastmodified">>

CardObject(cardUri, data) ==
    [uri |-> cardUri, carddata |-> At(data, 0), lastmodified |-> At(data, 1)]

GetCards_zrange(p) ==
    /\ pc[p] = "gcs_zrange"
    /\ LET res == ZRANGE(zsets, AddressBookCardsKey(call[p].addressBookId))
       IN  Goto(p, [local[p] EXCEPT !.cardUris = FromMultiBulk(res)], "gcs_exec")
    /\ UNCHANGED store

GetCards_exec(p) ==
    /\ pc[p] = "gcs_exec"
    /\ LET cardUris == local[p].cardUris
           res == [i \in 1..Len(cardUris) |->
                     HMGET(hashes, CardKey(call[p].addressBookId, cardUris[i][2]),
                           CardFields)]
           cards == [i \in 1..Len(cardUris) |->
                       CardObject(cardUris[i], FromMultiBulk(res[i]))]
       IN  Finish(p, "", "cards", cards)
    /\ UNCHANGED store

\* ------------------------------------------------------------ getCard
GetCard(p, addressBookId, cardUri) ==
    /\ Start(p, [NoCall EXCEPT !.op = "getCard", !.addressBookId = addressBookId,
                               !.cardUri = cardUri],
             NoLocal, "gc_hmget")
    /\ UNCHANGED store

GetCard_hmget(p) ==
    /\ pc[p] = "gc_hmget"
    /\ LET res == FromMultiBulk(
                    HMGET(hashes, CardKey(call[p].addressBookId, call[p].cardUri),
                          CardFields))
       IN  IF Len(res) = 0
           THEN ReturnSilently(p)
           ELSE Finish(p, "", "card", CardObject(Str(call[p].cardUri), res))
    /\ UNCHANGED store

\* ------------------------------------------------------------ createCard
CreateCard(p, addressBookId, cardUri, cardData, now) ==
    /\ Start(p, [NoCall EXCEPT !.op = "createCard", !.addressBookId = addressBookId,
                               !.cardUri = cardUri, !.cardData = cardData],
             [NoLocal EXCEPT !.now = now], "cc_hget")
    /\ UNCHANGED store

\* The reply callback of the HGET of ctag, the same in the three card writers.
ReadCtag(p, at) ==
    LET ctag == HGET(hashes, AddressBookKey(call[p].addressBookId), "ctag")
    IN  IF ctag = Nil
        THEN Throw(p)
        ELSE Goto(p, [local[p] EXCEPT !.ctag = Increment(parseInt(ctag[2]))], at)

CardRecord(cardData, now) ==
    [carddata |-> cardData, lastmodified |-> NumberToString(now)]

CreateCard_hget(p) ==
    /\ pc[p] = "cc_hget"
    /\ ReadCtag(p, "cc_exec")
    /\ UNCHANGED store

CreateCard_exec(p) ==
    /\ pc[p] = "cc_exec"
    /\ LET h1 == HMSET(hashes, CardKey(call[p].addressBookId, call[p].cardUri),
                       CardRecord(call[p].cardData, local[p].now))
       IN  hashes' = HSET(h1, AddressBookKey(call[p].addressBookId), "ctag",
                          NumberToString(local[p].ctag))
    /\ zsets' = ZADD(zsets, SharedCardsKey, local[p].now, call[p].cardUri)
    /\ Finish(p, "", "etag", "\"" \o Md5(call[p].cardData) \o "\"")
    /\ UNCHANGED strings

\* ------------------------------------------------------------ updateCard
UpdateCard(p, addressBookId, cardUri, cardData, now) ==
    /\ Start(p, [NoCall EXCEPT !.op = "updateCard", !.addressBookId = addressBookId,
                               !.cardUri = cardUri, !.cardData = cardData],
             [NoLocal EXCEPT !.now = now], "uc_hget")
    /\ UNCHANGED store

UpdateCard_hget(p) ==
    /\ pc[p] = "uc_hget"
    /\ ReadCtag(p, "uc_exec")
    /\ UNCHANGED store

UpdateCard_exec(p) ==
    /\ pc[p] = "uc_exec"
    /\ LET h1 == HMSET(hashes, CardKey(call[p].addressBookId, call[p].cardUri),
                       CardRecord(call[p].cardData, local[p].now))
       IN  hashes' = HSET(h1, AddressBookKey(call[p].addressBookId), "ctag",
                          NumberToString(local[p].ctag))
    /\ Finish(p, "", "etag", "\"" \o Md5(call[p].cardData) \o "\"")
    /\ UNCHANGED <<strings, zsets>>

\* ------------------------------------------------------------ deleteCard
DeleteCard(p, addressBookId, cardUri) ==
    /\ Start(p, [NoCall EXCEPT !.op = "deleteCard", !.addressBookId = addressBookId,
                               !.cardUri = cardUri],
             NoLocal, "dc_hget")
    /\ UNCHANGED store

DeleteCard_hget(p) ==
    /\ pc[p] = "dc_hget"
    /\ ReadCtag(p, "dc_exec")
    /\ UNCHANGED store

DeleteCard_exec(p) ==
    /\ pc[p] = "dc_exec"
    /\ LET h1 == DEL(hashes, CardKey(call[p].addressBookId, call[p].cardUri))
       IN  hashes' = HSET(h1, AddressBookKey(call[p].addressBookId), "ctag",
                          NumberToString(local[p].ctag))
    /\ zsets' = ZREM(zsets, SharedCardsKey, call[p].cardUri)
    /\ Finish(p, "", "bool", TRUE)
    /\ UNCHANGED strings

\* ------------------------------------------------------------ specification
\* The Address-Book Directory: the operations on address books and id sets.
InvokeDirectory(p) ==
    \/ \E principalUri \in Principals : GetAddressBooksForUser(p, principalUri)
    \/ \E addressBookId \in AbIds, mutations \in PropertyMaps :
          UpdateAddressBook(p, addressBookId, mutations)
    \/ \E principalUri \in Principals, url \in Urls, properties \in PropertyMaps :
          CreateAddressBook(p, principalUri, url, properties)
    \/ \E addressBookId \in AbIds : DeleteAddressBook(p, addressBookId)

\* The Card Store: the operations on cards.
InvokeCards(p) ==
    \/ \E addressBookId \in AbIds : GetCards(p, addressBookId)
    \/ \E addressBookId \in AbIds, cardUri \in CardUris :
          GetCard(p, addressBookId, cardUri)
    \/ \E addressBookId \in AbIds, cardUri \in CardUris,
          cardData \in CardDatas, now \in Times :
          CreateCard(p, addressBookId, cardUri, cardData, now)
    \/ \E addressBookId \in AbIds, cardUri \in CardUris,
          cardData \in CardDatas, now \in Times :
          UpdateCard(p, addressBookId, cardUri, cardData, now)
    \/ \E addressBookId \in AbIds, cardUri \in CardUris :
          DeleteCard(p, addressBookId, cardUri)

Invoke(p) == InvokeDirectory(p) \/ InvokeCards(p)

ReplyDirectory(p) ==
    \/ GetAddressBooksForUser_hget(p)
    \/ GetAddressBooksForUser_exec(p)
    \/ UpdateAddressBook_hget(p)
    \/ UpdateAddressBook_hmset(p)
    \/ CreateAddressBook_hget(p)
    \/ CreateAddressBook_incr(p)
    \/ CreateAddressBook_exec(p)
    \/ DeleteAddressBook_step(p)

ReplyCards(p) ==
    \/ GetCards_zrange(p)
    \/ GetCards_exec(p)
    \/ GetCard_hmget(p)
    \/ CreateCard_hget(p)
    \/ CreateCard_exec(p)
    \/ UpdateCard_hget(p)
    \/ UpdateCard_exec(p)
    \/ DeleteCard_hget(p)
    \/ DeleteCard_exec(p)

Reply(p) == ReplyDirectory(p) \/ ReplyCards(p)

\* Callers may overlap: any slot may take a call while others are running.
Next == \E p \in Procs : (ncalls < MaxCalls /\ Invoke(p)) \/ Reply(p)

Spec == Init /\ [][Next]_vars

\* Callers take turns: a call is invoked only when no other is running.
NextSeq ==
    \E p \in Procs : (ncalls < MaxSeqCalls /\ Quiescent /\ Invoke(p)) \/ Reply(p)

SeqSpec == Init /\ [][NextSeq]_vars

\* Callers of the Address-Book Directory alone, overlapping.
NextDirectory ==
    \E p \in Procs : (ncalls < MaxDirectoryCalls /\ InvokeDirectory(p)) \/ ReplyDirectory(p)

DirectorySpec == Init /\ [][NextDirectory]_vars

\* Callers of the Card Store taking turns, on address books created with no
\* properties.
InvokeCardStore(p) ==
    \/ \E principalUri \in Principals, url \in Urls :
          CreateAddressBook(p, principalUri, url, EmptyMap)
    \/ InvokeCards(p)

ReplyCardStore(p) ==
    \/ CreateAddressBook_hget(p)
    \/ CreateAddressBook_incr(p)
    \/ CreateAddressBook_exec(p)
    \/ ReplyCards(p)

NextCardStore ==
    \E p \in Procs :
        (ncalls < MaxCardCalls /\ Quiescent /\ InvokeCardStore(p)) \/ ReplyCardStore(p)

CardStoreSpec == Init /\ [][NextCardStore]_vars

\* ------------------------------------------------------------ reading the store
Recognized == {PropDisplayName, PropDescription}
CardWriters == {"createCard", "updateCard", "deleteCard"}

Exists(id) == AddressBookKey(id) \in DOMAIN hashes
Record(id) == hashes[AddressBookKey(id)]
Ctag(id) == parseInt(Record(id)["ctag"])
CardExists(id, cardUri) == CardKey(id, cardUri) \in DOMAIN hashes

\* The id array stored for a principal, empty when none is stored.
IdsOf(principalUri) ==
    IF principalUri \in DOMAIN HashAt(hashes, PrincipalKey)
    THEN JSONParse(hashes[PrincipalKey][principalUri])
    ELSE <<>>

Range(f) == { f[i] : i \in DOMAIN f }

\* The call of slot p has ended: its chain runs no further.
Ended(p) == pc[p] \in {"done", "thrown"}
\* ... and it ended by invoking the callback once, without an error.
Succeeded(p) == pc[p] = "done" /\ cb[p].n = 1 /\ cb[p].err = ""
\* Slot p takes a call in this step.
Invoked(p) == ~InFlight(p) /\ ncalls' = ncalls + 1 /\ call'[p].op # "none"

\* ------------------------------------------------------------ claims

\* C1: when principal P's id set holds exactly one address book, created with
\* no properties and untouched since (ctag 1), getAddressBooksForUser(P)
\* succeeds with exactly one entry, which has the book's uri and a ctag of 1.
C1_ListAfterCreate ==
    \A p \in Procs :
        ( /\ Ended(p)
          /\ call[p].op = "getAddressBooksForUser"
          /\ Len(IdsOf(call[p].principalUri)) = 1
          /\ Exists(IdsOf(call[p].principalUri)[1])
          /\ Record(IdsOf(call[p].principalUri)[1])["ctag"] = "1"
          /\ Record(IdsOf(call[p].principalUri)[1])["displayname"] = "null"
          /\ Record(IdsOf(call[p].principalUri)[1])["description"] = "null" )
        => ( /\ Succeeded(p)
             /\ Len(cb[p].val) = 1
             /\ cb[p].val[1].uri = Str(Record(IdsOf(call[p].principalUri)[1])["uri"])
             /\ cb[p].val[1].getctag = Str("1") )

\* C2: with no other call interleaved, a card write (createCard, updateCard,
\* deleteCard) that succeeds on address book A stores a ctag exactly 1 above
\* the one stored before, and no earlier step of the call changes the store.
C2_CardWriteBumpsCtag ==
    [][ \A p \in Procs :
          (InFlight(p) /\ call[p].op \in CardWriters /\ pc'[p] # pc[p])
          => IF pc'[p] = "done" /\ cb'[p].n = 1 /\ cb'[p].err = ""
             THEN /\ Exists(call[p].addressBookId)
                  /\ Exists(call[p].addressBookId)'
                  /\ Ctag(call[p].addressBookId)' = Ctag(call[p].addressBookId) + 1
             ELSE store' = store ]_vars

C2_Witness ==
    \E p \in Procs :
        /\ Succeeded(p)
        /\ call[p].op = "deleteCard"
        /\ Exists(call[p].addressBookId)
        /\ Ctag(call[p].addressBookId) = 3

\* C3: every write of the ctag of an existing address book stores a value
\* strictly greater than the one stored just before it, whatever the
\* interleaving of the calls.
C3_CtagStrictlyIncreases ==
    [][ \A p \in Procs :
          ( /\ pc[p] \in {"uab_hmset", "cc_exec", "uc_exec", "dc_exec"}
            /\ pc'[p] = "done"
            /\ Exists(call[p].addressBookId) )
          => Ctag(call[p].addressBookId)' > Ctag(call[p].addressBookId) ]_vars

\* C4: once a deleteAddressBook(A) call has ended, A's record is gone, no card
\* record of A is left and no principal's id set holds A.
C4_CascadingDelete ==
    \A p \in Procs :
        (Ended(p) /\ call[p].op = "deleteAddressBook")
        => ( /\ ~Exists(call[p].addressBookId)
             /\ \A cardUri \in CardUris : ~CardExists(call[p].addressBookId, cardUri)
             /\ \A principalUri \in Principals :
                    call[p].addressBookId \notin Range(IdsOf(principalUri)) )

\* C5: a createAddressBook whose properties hold a name other than display-name
\* and address-book-description ends at once with BadRequest and leaves the
\* store (records, id sets, id counter) as it was.
C5_CreateRejected ==
    [][ \A p \in Procs :
          ( /\ Invoked(p)
            /\ call'[p].op = "createAddressBook"
            /\ DOMAIN call'[p].properties \ Recognized # {} )
          => ( /\ pc'[p] = "done"
               /\ cb'[p].n = 1
               /\ cb'[p].err = "BadRequest"
               /\ store' = store ) ]_vars

C5_Witness ==
    \E p \in Procs :
        /\ pc[p] = "done"
        /\ call[p].op = "createAddressBook"
        /\ PropOther \in DOMAIN call[p].properties
        /\ PropDisplayName \in DOMAIN call[p].properties
        /\ cb[p].err = "BadRequest"

\* C6: an updateAddressBook whose mutations hold an unrecognized name (even
\* beside recognized ones), or are empty, ends at once returning false and
\* leaves the store as it was.
C6_UpdateRejected ==
    [][ \A p \in Procs :
          ( /\ Invoked(p)
            /\ call'[p].op = "updateAddressBook"
            /\ \/ DOMAIN call'[p].mutations \ Recognized # {}
               \/ DOMAIN call'[p].mutations = {} )
          => ( /\ pc'[p] = "done"
               /\ cb'[p].n = 1
               /\ cb'[p].err = ""
               /\ cb'[p].kind = "bool"
               /\ cb'[p].val = FALSE
               /\ store' = store ) ]_vars

C6_Witness ==
    \E p \in Procs :
        /\ pc[p] = "done"
        /\ call[p].op = "updateAddressBook"
        /\ Exists(call[p].addressBookId)
        /\ PropOther \in DOMAIN call[p].mutations
        /\ PropDisplayName \in DOMAIN call[p].mutations
        /\ cb[p].kind = "bool"
        /\ cb[p].val = FALSE

\* C7: a listing that follows the writes of createAddressBook and
\* updateAddressBook returns, for every address book, the stored display name
\* as displayname, the stored description as addressbook-description and the
\* stored ctag as getctag.
C7_ListReturnsProperties ==
    \A p \in Procs :
        (Succeeded(p) /\ call[p].op = "getAddressBooksForUser")
        => \A i \in 1..Len(cb[p].val) :
              LET e == cb[p].val[i]
              IN  Exists(e.id)
                  => ( /\ e.displayname = Str(Record(e.id)["displayname"])
                       /\ e.addressbookDescription = Str(Record(e.id)["description"])
                       /\ e.getctag = Str(Record(e.id)["ctag"]) )

\* C8: a getCard for a card that has no record ends by invoking the callback
\* once with no error and the value false.
C8_GetCardAbsent ==
    \A p \in Procs :
        ( /\ Ended(p)
          /\ call[p].op = "getCard"
          /\ ~CardExists(call[p].addressBookId, call[p].cardUri) )
        => ( /\ Succeeded(p)
             /\ cb[p].kind = "bool"
             /\ cb[p].val = FALSE )

\* C9: with calls taking turns, getCards(A) on an existing address book
\* returns exactly the cards stored under A, each with its stored body.
C9_ListingMatchesRecords ==
    \A p \in Procs :
        (Succeeded(p) /\ call[p].op = "getCards" /\ Exists(call[p].addressBookId))
        => LET A == call[p].addressBookId
               cards == cb[p].val
           IN  /\ { cards[i].uri : i \in 1..Len(cards) }
                    = { Str(u) : u \in { v \in CardUris : CardExists(A, v) } }
               /\ \A i \in 1..Len(cards) :
                     cards[i].carddata
                        = Str(hashes[CardKey(A, cards[i].uri[2])]["carddata"])

\* C10: the id counter never goes down, and every id createAddressBook is
\* given is the counter's new value, above the old one and above every id
\* held by a running call, a record or an id set.
IdsInUse ==
    { local[q].id : q \in { r \in Procs : pc[r] = "cab_exec" } }
      \cup { id \in AbIds : Exists(id) }
      \cup UNION { Range(IdsOf(principalUri)) : principalUri \in Principals }

C10_FreshIds ==
    [][ /\ CounterAt(strings, IdKey)' >= CounterAt(strings, IdKey)
        /\ \A p \in Procs :
              (pc[p] = "cab_incr" /\ pc'[p] = "cab_exec")
              => ( /\ local'[p].id = CounterAt(strings, IdKey)'
                   /\ local'[p].id > CounterAt(strings, IdKey)
                   /\ \A id \in IdsInUse : id < local'[p].id ) ]_vars

C10_Witness ==
    \E p, q \in Procs :
        /\ pc[p] = "cab_exec"
        /\ pc[q] = "cab_exec"
        /\ local[p].id < local[q].id


\* C11 as stated: the stored ctag of an existing address book A changes only
\* in the step in which a createCard, updateCard or deleteCard on A succeeds.
C11_OnlyCardWritesChangeCtag ==
    [][ \A id \in AbIds :
          (Exists(id) /\ Exists(id)' /\ Ctag(id)' # Ctag(id))
          => \E p \in Procs :
                /\ InFlight(p)
                /\ call[p].op \in CardWriters
                /\ call[p].addressBookId = id
                /\ pc'[p] = "done" /\ cb'[p].n = 1 /\ cb'[p].err = "" ]_vars

\* C11 amended: the stored ctag of an existing address book A changes only in
\* the step in which a createCard, updateCard, deleteCard or updateAddressBook
\* on A succeeds; reads, rejected calls, calls on other address books and
\* createAddressBook leave it as it was.
C11_OnlyWritesToAChangeCtag ==
    [][ \A id \in AbIds :
          (Exists(id) /\ Exists(id)' /\ Ctag(id)' # Ctag(id))
          => \E p \in Procs :
                /\ InFlight(p)
                /\ call[p].op \in CardWriters \cup {"updateAddressBook"}
                /\ call[p].addressBookId = id
                /\ pc'[p] = "done" /\ cb'[p].n = 1 /\ cb'[p].err = "" ]_vars

C11_Witness ==
    \E p \in Procs :
        /\ Succeeded(p)
        /\ call[p].op = "updateAddressBook"
        /\ cb[p].kind = "bool"
        /\ cb[p].val = TRUE
        /\ Exists(call[p].addressBookId)
        /\ Ctag(call[p].addressBookId) = 2
        /\ \E id \in AbIds \ {call[p].addressBookId} : Exists(id) /\ Ctag(id) = 1

\* C12: a call on an existing address book (or on a principal) whose chain of
\* callbacks has ended has invoked the caller's callback exactly once.
C12_CallbackOnce ==
    \A p \in Procs :
        ( /\ Ended(p)
          /\ call[p].addressBookId # 0 => Exists(call[p].addressBookId) )
        => cb[p].n = 1

\* The ctag-mutating operations, and the positions at which a call of one of
\* them holds the value it read, incremented, and has its write still to do.
CtagWriters == CardWriters \cup {"updateAddressBook"}
CtagWritePending(p) == pc[p] \in {"uab_hmset", "cc_exec", "uc_exec", "dc_exec"}

\* C13: of two overlapping ctag-mutating calls on the same address book that
\* both read the same ctag c before either wrote, the first to write stores
\* c + 1 and succeeds, and the second, writing while the stored ctag already is
\* the c + 1 it holds, succeeds too and leaves the stored ctag at c + 1.
C13_LostCtagUpdate ==
    [][ \A p, q \in Procs :
          ( /\ p # q
            /\ call[p].op \in CtagWriters /\ call[q].op \in CtagWriters
            /\ call[p].addressBookId = call[q].addressBookId
            /\ CtagWritePending(q)
            /\ pc'[q] = "done" )
          => LET id == call[q].addressBookId
             IN  /\ ( CtagWritePending(p) /\ local[p].ctag = local[q].ctag )
                    => /\ Succeeded(q)'
                       /\ Ctag(id)' = local[p].ctag
                       /\ pc'[p] = pc[p]
                       /\ local'[p] = local[p]
                 /\ ( Succeeded(p) /\ Ctag(id) = local[q].ctag )
                    => /\ Succeeded(p)'
                       /\ Succeeded(q)'
                       /\ Ctag(id)' = Ctag(id) ]_vars

C13_Witness ==
    \E p, q \in Procs :
        /\ p # q
        /\ Succeeded(p) /\ Succeeded(q)
        /\ call[p].op \in CtagWriters /\ call[q].op \in CtagWriters
        /\ call[p].addressBookId = call[q].addressBookId
        /\ ncalls = 3
        /\ Exists(call[p].addressBookId)
        /\ Ctag(call[p].addressBookId) = 2

\* C14: when a createAddressBook call for principal P writes, the stored id
\* set of P becomes the caller's own copy (the set it read plus its new id) and
\* no record is removed; so when an overlapping createAddressBook for P that
\* read the same set has already written, the id it added is dropped from the
\* stored set although its record stays: both calls succeed, both records
\* exist, and the set holds the new id of the second writer only.
C14_LostIdSetUpdate ==
    [][ \A p, q \in Procs :
          ( /\ p # q
            /\ call[p].op = "createAddressBook"
            /\ call[q].op = "createAddressBook"
            /\ call[p].principalUri = call[q].principalUri
            /\ pc[q] = "cab_exec"
            /\ pc'[q] = "done" )
          => LET P == call[q].principalUri
                 dropped == Range(IdsOf(P)) \ Range(local[q].ids)
             IN  /\ Succeeded(q)'
                 /\ IdsOf(P)' = local[q].ids
                 /\ \A new \in {local[q].id} :
                       new \in Range(IdsOf(P)') /\ Exists(new)'
                 /\ \A id \in AbIds : Exists(id) => Exists(id)'
                 /\ Succeeded(p)
                    => /\ Succeeded(p)'
                       /\ \A id \in dropped :
                             id \notin Range(IdsOf(P)') /\ Exists(id)' ]_vars

C14_Witness ==
    \E p, q \in Procs, id1, id2 \in AbIds :
        /\ p # q /\ id1 # id2
        /\ Succeeded(p) /\ Succeeded(q)
        /\ call[p].op = "createAddressBook"
        /\ call[q].op = "createAddressBook"
        /\ call[p].principalUri = call[q].principalUri
        /\ Exists(id1) /\ Exists(id2)
        /\ Record(id1)["principaluri"] = call[p].principalUri
        /\ Record(id2)["principaluri"] = call[p].principalUri
        /\ IdsOf(call[p].principalUri) = <<id2>>

\* C15: once a createCard(A, u, body) that succeeded and a deleteAddressBook(A)
\* that overlapped it have both ended, deleteAddressBook has completed and the
\* record of A is deleted, at most a written-back ctag field being left on its
\* key: the state in which a card record of A that is still stored is an orphan.
C15_DeleteCompletesBesideCreateCard ==
    \A p, q \in Procs :
        ( /\ call[p].op = "deleteAddressBook"
          /\ call[q].op = "createCard"
          /\ call[p].addressBookId = call[q].addressBookId
          /\ Ended(p)
          /\ Succeeded(q) )
        => /\ Succeeded(p)
           /\ DOMAIN HashAt(hashes, AddressBookKey(call[p].addressBookId))
                 \subseteq {"ctag"}

\* No id set is stored for the principal.
NoIdSet(principalUri) == principalUri \notin DOMAIN HashAt(hashes, PrincipalKey)

\* C16: with no id set stored for principal P, getAddressBooksForUser(P)
\* completes with an error, whereas createAddressBook for P goes on with the
\* empty set, and deleteAddressBook of an existing address book goes on to read
\* its principal's id set and, with none stored, goes on with the empty set.
C16_AbsentIdSet ==
    [][ \A p \in Procs :
          pc'[p] # pc[p]
          => /\ ( pc[p] = "gab_hget" /\ NoIdSet(call[p].principalUri) )
                => /\ pc'[p] = "done"
                   /\ cb'[p].n = 1
                   /\ cb'[p].err # ""
             /\ ( pc[p] = "cab_hget" /\ NoIdSet(call[p].principalUri) )
                => /\ pc'[p] = "cab_incr"
                   /\ local'[p].ids = <<>>
             /\ ( pc[p] = "dab_hget_principal" /\ Exists(call[p].addressBookId) )
                => pc'[p] = "dab_hget_ids"
             /\ ( pc[p] = "dab_hget_ids" /\ NoIdSet(local[p].principalUri) )
                => /\ pc'[p] = "dab_zrange"
                   /\ local'[p].ids = <<>> ]_vars

\* C17: when callers take turns, the final step of deleteCard(A, u) on an
\* existing address book A returns true and raises A's ctag by exactly 1,
\* whether or not card u exists; when it does not exist, the step changes no
\* card record and leaves the card index kept for A as it was.
C17_DeleteCardOfAbsentCard ==
    [][ \A p \in Procs :
          ( pc[p] = "dc_exec" /\ pc'[p] = "done" )
          => LET A == call[p].addressBookId
                 u == call[p].cardUri
             IN  /\ Exists(A)
                 /\ Succeeded(p)'
                 /\ cb'[p].kind = "bool"
                 /\ cb'[p].val = TRUE
                 /\ Ctag(A)' = Ctag(A) + 1
                 /\ ~CardExists(A, u)
                    => /\ \A id \in AbIds, v \in CardUris :
                             /\ CardExists(id, v)' = CardExists(id, v)
                             /\ CardExists(id, v)
                                => HashAt(hashes, CardKey(id, v))'
                                      = HashAt(hashes, CardKey(id, v))
                       /\ ZsetAt(zsets, AddressBookCardsKey(A))'
                             = ZsetAt(zsets, AddressBookCardsKey(A)) ]_vars

C17_Witness ==
    \E p \in Procs :
        /\ Succeeded(p)
        /\ call[p].op = "deleteCard"
        /\ cb[p].kind = "bool"
        /\ cb[p].val = TRUE
        /\ ncalls = 2
        /\ Exists(call[p].addressBookId)
        /\ Ctag(call[p].addressBookId) = 2
        /\ \A id \in AbIds, v \in CardUris : ~CardExists(id, v)

\* C18: for distinct existing address books A and B, no step of a createCard,
\* updateCard or deleteCard on A changes B's ctag, any card record of B, or the
\* card uris that getCards(B) and deleteAddressBook(B) enumerate, also when A
\* and B hold a card with the same uri.
C18_CardWritesLeaveOtherBooks ==
    [][ \A p \in Procs :
          ( /\ call[p].op \in CardWriters
            /\ InFlight(p)
            /\ pc'[p] # pc[p]
            /\ Exists(call[p].addressBookId) )
          => \A B \in AbIds \ {call[p].addressBookId} :
                Exists(B)
                => /\ Exists(B)'
                   /\ Ctag(B)' = Ctag(B)
                   /\ \A v \in CardUris :
                         HashAt(hashes, CardKey(B, v))'
                            = HashAt(hashes, CardKey(B, v))
                   /\ ZRANGE(zsets, AddressBookCardsKey(B))'
                         = ZRANGE(zsets, AddressBookCardsKey(B)) ]_vars

C18_Witness ==
    \E p \in Procs, B \in AbIds, u \in CardUris :
        /\ Succeeded(p)
        /\ call[p].op \in {"createCard", "updateCard"}
        /\ call[p].cardUri = u
        /\ B # call[p].addressBookId
        /\ Exists(call[p].addressBookId) /\ Exists(B)
        /\ CardExists(call[p].addressBookId, u) /\ CardExists(B, u)
        /\ Ctag(call[p].addressBookId) = 2
        /\ Ctag(B) = 2

\* C19: no two address books in the id set of one principal have the same uri.
C19_UriUniquePerPrincipal ==
    \A principalUri \in Principals :
        \A id1, id2 \in Range(IdsOf(principalUri)) :
            ( id1 # id2 /\ Exists(id1) /\ Exists(id2) )
            => Record(id1)["uri"] # Record(id2)["uri"]

====
